---- MODULE Spec2Model ----
(***************************************************************************)
(* Model of deployment/autonomous-deployment-orchestrator.py:              *)
(* AutonomousDeploymentOrchestrator.orchestrate_deployment and the         *)
(* components it drives (RiskAnalyzer, AIDeploymentEngine, the stage       *)
(* pipeline, the production monitoring loop, the rollback and the          *)
(* DeploymentHistoryTracker).                                              *)
(*                                                                         *)
(* Numbers.  The source computes with floats, and so does the model: every *)
(* value the source computes (the scores, the overall score, the risk      *)
(* score, the confidence, the anomaly threshold) is a binary64 float, and  *)
(* every sum, product and quotient is rounded as Python rounds it.  The    *)
(* metric inputs, which the source writes as decimal literals, are kept as *)
(* integers in the unit named by their field and converted by Dec, which   *)
(* gives the float the literal denotes:                                    *)
(*   test_coverage         tenths of a percent      (895  = 89.5)          *)
(*   *_score               hundredths               (92   = 0.92)          *)
(*   response_time_p95     tenths of a millisecond  (1457 = 145.7)         *)
(*   error_rate            hundredths of a percent  (5    = 0.05)          *)
(*   availability          hundredths of a percent  (9997 = 99.97)         *)
(*   realtime response_time, business-impact severity: hundredths          *)
(* Where the source compares such an input directly with a literal         *)
(* (test_coverage < 80, severity > 0.7), the model compares the integers:  *)
(* Dec is monotone and maps distinct decimals of these sizes to distinct   *)
(* floats, so the two comparisons agree.                                   *)
(*                                                                         *)
(* Spec is one call on a fresh orchestrator; SpecFair is Spec with the     *)
(* event loop's progress; SpecConcurrent is several interleaved calls;     *)
(* SpecDecision is the analysis and the decision over a wider range of     *)
(* metrics.                                                                *)
(***************************************************************************)
EXTENDS Integers, Sequences, FiniteSets, TLC

Max(a, b) == IF a >= b THEN a ELSE b
Min(a, b) == IF a <= b THEN a ELSE b

(***************************************************************************)
(* Python floats (IEEE 754 binary64, round to nearest, ties to even).      *)
(*                                                                         *)
(* A natural number is the sequence of its digits in base 2^15, least      *)
(* significant first, without leading zero digit (0 is << >>).  A float is *)
(* the record [neg, m, e] of value (-1)^neg * m * 2^e, where m is a        *)
(* natural with 2^52 <= m < 2^53; zero is [neg |-> FALSE, m |-> << >>,     *)
(* e |-> 0].  Every operation computes the exact result and rounds it once,*)
(* as the hardware does.                                                   *)
(***************************************************************************)
Base == 32768

RECURSIVE Strip(_)
Strip(a) ==
    IF a = <<>> THEN a
    ELSE IF a[Len(a)] = 0 THEN Strip(SubSeq(a, 1, Len(a) - 1))
    ELSE a

RECURSIVE NatOf(_)
NatOf(n) == IF n = 0 THEN <<>> ELSE <<n % Base>> \o NatOf(n \div Base)

RECURSIVE AddC(_, _, _)
AddC(a, b, c) ==
    IF a = <<>> /\ b = <<>> THEN NatOf(c)
    ELSE LET x == (IF a = <<>> THEN 0 ELSE a[1]) + (IF b = <<>> THEN 0 ELSE b[1]) + c
         IN  <<x % Base>> \o AddC(IF a = <<>> THEN a ELSE Tail(a),
                                  IF b = <<>> THEN b ELSE Tail(b), x \div Base)

NatAdd(a, b) == Strip(AddC(a, b, 0))

RECURSIVE SubB(_, _, _)
SubB(a, b, c) ==
    IF a = <<>> THEN <<>>
    ELSE LET x == a[1] - (IF b = <<>> THEN 0 ELSE b[1]) - c
         IN  <<(x + Base) % Base>>
             \o SubB(Tail(a), IF b = <<>> THEN b ELSE Tail(b), IF x < 0 THEN 1 ELSE 0)

\* a - b, for a >= b
NatSub(a, b) == Strip(SubB(a, b, 0))

RECURSIVE MulS(_, _, _)
\* a * d + c, for a digit d
MulS(a, d, c) ==
    IF a = <<>> THEN NatOf(c)
    ELSE LET x == a[1] * d + c IN <<x % Base>> \o MulS(Tail(a), d, x \div Base)

RECURSIVE NatMul(_, _)
NatMul(a, b) ==
    IF a = <<>> THEN <<>>
    ELSE Strip(AddC(MulS(b, a[1], 0), <<0>> \o NatMul(Tail(a), b), 0))

RECURSIVE DivS(_, _, _)
\* quotient and remainder of r * Base^Len(a) + a by a digit d > r
DivS(a, d, r) ==
    IF a = <<>> THEN [q |-> <<>>, r |-> r]
    ELSE LET x == r * Base + a[Len(a)]
             lo == DivS(SubSeq(a, 1, Len(a) - 1), d, x % d)
         IN  [q |-> Append(lo.q, x \div d), r |-> lo.r]

RECURSIVE CmpAt(_, _, _)
CmpAt(a, b, i) ==
    IF i = 0 THEN 0
    ELSE IF a[i] # b[i] THEN (IF a[i] < b[i] THEN -1 ELSE 1)
    ELSE CmpAt(a, b, i - 1)

\* -1, 0, 1 as a < b, a = b, a > b
NatCmp(a, b) ==
    IF Len(a) # Len(b) THEN (IF Len(a) < Len(b) THEN -1 ELSE 1)
    ELSE CmpAt(a, b, Len(a))

RECURSIVE BitsOf(_)
BitsOf(n) == IF n = 0 THEN 0 ELSE 1 + BitsOf(n \div 2)

\* number of binary digits of a
NatBits(a) == IF a = <<>> THEN 0 ELSE 15 * (Len(a) - 1) + BitsOf(a[Len(a)])

\* a * 2^k
NatShl(a, k) ==
    IF a = <<>> THEN a
    ELSE [i \in 1 .. (k \div 15) |-> 0] \o MulS(a, 2 ^ (k % 15), 0)

\* a \div 2^k
NatShr(a, k) ==
    IF k \div 15 >= Len(a) THEN <<>>
    ELSE Strip(DivS(SubSeq(a, (k \div 15) + 1, Len(a)), 2 ^ (k % 15), 0).q)

FZero == [neg |-> FALSE, m |-> <<>>, e |-> 0]

\* q has 53 or (after a carry) 54 binary digits, the 54th followed by zeros
FNormal(neg, q, e) ==
    IF NatBits(q) = 54 THEN [neg |-> neg, m |-> NatShr(q, 1), e |-> e + 1]
    ELSE [neg |-> neg, m |-> q, e |-> e]

\* q = n \div 2^k: whether n * 2^-k (plus a positive rest when sticky)
\* rounds to q + 1: above the half, or at the half with an odd q
FRoundsUp(n, q, k, sticky) ==
    LET c == NatCmp(NatSub(n, NatShl(q, k)), NatShl(<<1>>, k - 1))
    IN  c > 0 \/ (c = 0 /\ (sticky \/ q[1] % 2 = 1))

\* n has k > 0 digits more than 53, q = n \div 2^k
FRoundCut(neg, n, e, sticky, k, q) ==
    FNormal(neg, IF FRoundsUp(n, q, k, sticky) THEN NatAdd(q, <<1>>) ELSE q, e + k)

\* n has bl > 0 binary digits
FRoundBits(neg, n, e, sticky, bl) ==
    IF bl <= 53
    THEN [neg |-> neg, m |-> NatShl(n, 53 - bl), e |-> e - (53 - bl)]
    ELSE FRoundCut(neg, n, e, sticky, bl - 53, NatShr(n, bl - 53))

\* the float nearest to (-1)^neg * (n * 2^e + t), where 0 < t < 2^e when
\* sticky and t = 0 otherwise; a sticky n has more than 54 binary digits.
FRound(neg, n, e, sticky) ==
    IF n = <<>> THEN FZero ELSE FRoundBits(neg, n, e, sticky, NatBits(n))

\* float(n) for an integer n
FInt(n) == FRound(n < 0, NatOf(IF n < 0 THEN -n ELSE n), 0, FALSE)

FNeg(x) == IF x.m = <<>> THEN x ELSE [x EXCEPT !.neg = ~x.neg]

\* x + y for x of magnitude a * 2^e and y of magnitude b * 2^e
FAddAt(x, y, e, a, b) ==
    FRound(IF x.neg = y.neg \/ NatCmp(a, b) > 0 THEN x.neg ELSE y.neg,
           IF x.neg = y.neg THEN NatAdd(a, b)
           ELSE IF NatCmp(a, b) >= 0 THEN NatSub(a, b) ELSE NatSub(b, a),
           e, FALSE)

\* x + y
FAdd(x, y) ==
    IF x.m = <<>> THEN y
    ELSE IF y.m = <<>> THEN x
    ELSE IF x.e <= y.e THEN FAddAt(x, y, x.e, x.m, NatShl(y.m, y.e - x.e))
    ELSE FAddAt(y, x, y.e, y.m, NatShl(x.m, x.e - y.e))

\* x - y
FSub(x, y) == FAdd(x, FNeg(y))

\* x * y
FMul(x, y) ==
    IF x.m = <<>> \/ y.m = <<>> THEN FZero
    ELSE FRound(x.neg # y.neg, NatMul(x.m, y.m), x.e + y.e, FALSE)

\* x with the quotient and remainder qr of x.m * 2^30 by d
FQuotient(x, qr) == FRound(x.neg, Strip(qr.q), x.e - 30, qr.r # 0)

\* x / d for an integer 0 < d < 2^15
FDivInt(x, d) ==
    IF x.m = <<>> THEN FZero ELSE FQuotient(x, DivS(NatShl(x.m, 30), d, 0))

\* -1, 0, 1 as the magnitude of x is below, equal to, above that of y
FCmpMag(x, y) ==
    IF x.e # y.e THEN (IF x.e < y.e THEN -1 ELSE 1) ELSE NatCmp(x.m, y.m)

\* -1, 0, 1 as x < y, x = y, x > y
FCmp(x, y) ==
    IF x.m = <<>> /\ y.m = <<>> THEN 0
    ELSE IF x.m = <<>> THEN (IF y.neg THEN 1 ELSE -1)
    ELSE IF y.m = <<>> THEN (IF x.neg THEN -1 ELSE 1)
    ELSE IF x.neg # y.neg THEN (IF x.neg THEN -1 ELSE 1)
    ELSE IF x.neg THEN -FCmpMag(x, y) ELSE FCmpMag(x, y)

FLt(x, y) == FCmp(x, y) < 0
FLe(x, y) == FCmp(x, y) <= 0
FGt(x, y) == FCmp(x, y) > 0
FGe(x, y) == FCmp(x, y) >= 0

\* max(a, b) and min(a, b) of Python: b only when it is strictly beyond a
FMax(a, b) == IF FGt(b, a) THEN b ELSE a
FMin(a, b) == IF FLt(b, a) THEN b ELSE a

\* the float a decimal literal denotes: n / 10^k, rounded once
Dec(n, k) == FDivInt(FInt(n), 10 ^ k)

\* 1.0
One == FInt(1)

PctMemo == [n \in 0 .. 100 |-> Dec(n, 2)] @@ <<>>

\* the float of a literal with two decimals: Pct(85) is 0.85.
Pct(n) == PctMemo[n]

\* Bounds of the model.
MaxRuns == 2
MaxTime == 1

Runs == 1 .. MaxRuns
Times == 0 .. MaxTime

(***************************************************************************)
(* DeploymentStage (Enum, lines 38-46) and the stage list of a run.        *)
(***************************************************************************)
VALIDATION == "validation"
BUILD == "build"
TEST == "test"
DEPLOY_DEV == "deploy_development"
DEPLOY_STAGING == "deploy_staging"
DEPLOY_PRODUCTION == "deploy_production"
MONITORING == "monitoring"
ROLLBACK == "rollback"

DeploymentStage ==
    {VALIDATION, BUILD, TEST, DEPLOY_DEV, DEPLOY_STAGING, DEPLOY_PRODUCTION, MONITORING,
     ROLLBACK}

\* lines 268-286: the stages _execute_autonomous_deployment iterates over.
deployment_stages(environment) ==
    <<VALIDATION, BUILD, TEST>>
    \o (IF environment = "development" THEN <<DEPLOY_DEV>>
        ELSE IF environment = "staging" THEN <<DEPLOY_DEV, DEPLOY_STAGING>>
        ELSE <<DEPLOY_DEV, DEPLOY_STAGING, DEPLOY_PRODUCTION>>)
    \o <<MONITORING>>

\* line 342: stage.value.replace("deploy_", "deploy-")
stage_name(stage) ==
    CASE stage = DEPLOY_DEV -> "deploy-development"
      [] stage = DEPLOY_STAGING -> "deploy-staging"
      [] stage = DEPLOY_PRODUCTION -> "deploy-production"
      [] OTHER -> stage

(***************************************************************************)
(* The metrics the providers can hand to the core.                         *)
(***************************************************************************)
\* metric providers (lines 231-257, 695-710): the source's placeholder values,
\* with test coverage, vulnerabilities and the security score varied.
QualityMetricsValues ==
    {[test_coverage |-> tc, code_quality_score |-> 92, security_vulnerabilities |-> v,
      performance_score |-> 88, reliability_score |-> 91, maintainability_score |-> 85] :
        tc \in {600, 895}, v \in {0, 2}}

PerformanceMetricsValues ==
    {[response_time_p95 |-> p95, throughput |-> 2500, error_rate |-> 5,
      cpu_utilization |-> 652, memory_utilization |-> 587, availability |-> 9997] :
        p95 \in {1000, 1457}}

SecurityAssessmentValues ==
    {[vulnerability_count |-> 0, security_score |-> sc, compliance_score |-> 98,
      threat_level |-> "low", quantum_security_enabled |-> TRUE,
      zero_trust_validated |-> TRUE] : sc \in {20, 95}}

\* the same providers with the metric fields ranging over both sides of
\* every threshold the code compares them with and up to their best values.
QualityMetricsDomain ==
    {[test_coverage |-> tc, code_quality_score |-> 92, security_vulnerabilities |-> v,
      performance_score |-> 88, reliability_score |-> 91, maintainability_score |-> 85] :
        tc \in {600, 799, 800, 895}, v \in {0, 1, 2}}
    \cup {[test_coverage |-> tc, code_quality_score |-> 100, security_vulnerabilities |-> v,
            performance_score |-> 100, reliability_score |-> 100,
            maintainability_score |-> 100] : tc \in {600, 800, 1000}, v \in {0, 2}}

PerformanceMetricsDomain ==
    {[response_time_p95 |-> 1457, throughput |-> 2500, error_rate |-> er,
      cpu_utilization |-> 652, memory_utilization |-> 587, availability |-> av] :
        er \in {5, 50, 51}, av \in {9949, 9950, 9997}}
    \cup {[response_time_p95 |-> 0, throughput |-> 2500, error_rate |-> 0,
            cpu_utilization |-> 652, memory_utilization |-> 587, availability |-> 10000]}

SecurityAssessmentDomain ==
    {[vulnerability_count |-> 0, security_score |-> sc, compliance_score |-> 98,
      threat_level |-> "low", quantum_security_enabled |-> TRUE,
      zero_trust_validated |-> TRUE] : sc \in {20, 95, 100}}

\* realtime samples (line 495: response_time 120.5) and business-impact
\* assessments (line 499: severity 0.1), with values on both sides of the
\* thresholds of lines 878 and 390.
RealtimeSamples ==
    {[response_time |-> rt, error_rate |-> 2, throughput |-> 2600] :
        rt \in {12050, 15000, 15001, 21855}}

BusinessImpacts ==
    {[severity |-> s, impact_areas |-> <<>>, estimated_loss |-> 0] : s \in {10, 70, 71}}

(***************************************************************************)
(* RiskAnalyzer.analyze_deployment_risk (lines 731-770).                   *)
(***************************************************************************)
risk_factors(context) ==
    (IF context.quality_metrics.test_coverage < 800
        THEN <<"Low test coverage">> ELSE <<>>)
    \o (IF context.quality_metrics.security_vulnerabilities > 0
        THEN <<"Security vulnerabilities present">> ELSE <<>>)
    \o (IF context.performance_metrics.error_rate > 50
        THEN <<"High error rate">> ELSE <<>>)
    \o (IF context.performance_metrics.availability < 9950
        THEN <<"Low availability">> ELSE <<>>)

\* lines 735-755: risk_score = 0.0, then += 0.2, 0.3, 0.2, 0.15 in this order,
\* each when its condition holds.
add_if(score, condition, weight) == IF condition THEN FAdd(score, weight) ELSE score

risk_sum(low_coverage, vulnerabilities, high_error_rate, low_availability) ==
    add_if(add_if(add_if(add_if(FZero, low_coverage, Pct(20)),
                         vulnerabilities, Pct(30)),
                  high_error_rate, Pct(20)),
           low_availability, Pct(15))

RiskSumMemo ==
    [b \in BOOLEAN \X BOOLEAN \X BOOLEAN \X BOOLEAN |->
        risk_sum(b[1], b[2], b[3], b[4])] @@ <<>>

\* lines 738-755: the conditions, on the two metric records they read.
risk_score_of(quality_metrics, performance_metrics) ==
    RiskSumMemo[<<quality_metrics.test_coverage < 800,
                  quality_metrics.security_vulnerabilities > 0,
                  performance_metrics.error_rate > 50,
                  performance_metrics.availability < 9950>>]

risk_score(context) ==
    risk_score_of(context.quality_metrics, context.performance_metrics)

\* mutant: the lower bound of MEDIUM is open.
risk_level_open(score) ==
    IF FGe(score, Pct(70)) THEN "high"
    ELSE IF FGt(score, Pct(40)) THEN "medium"
    ELSE "low"

risk_level(score) ==
    IF FGe(score, Pct(70)) THEN "high"
    ELSE IF FGe(score, Pct(40)) THEN "medium"
    ELSE "low"

analyze_deployment_risk(context) ==
    [overall_risk_score |-> risk_score(context),
     risk_level |-> risk_level(risk_score(context)),
     risk_factors |-> risk_factors(context),
     confidence_score |-> Pct(85)]

\* line 225: RiskAssessment(0, RiskLevel.LOW, [], [], 0, {})
PlaceholderRisk ==
    [overall_risk_score |-> FZero, risk_level |-> "low", risk_factors |-> <<>>,
     confidence_score |-> FZero]

(***************************************************************************)
(* AIDeploymentEngine: the scores and the decision (lines 542-655).        *)
(***************************************************************************)
\* lines 603-624: the weights are 0.25, 0.25, 0.25, 0.125, 0.125.
calculate_quality_score(metrics) ==
    FMin(One, FMax(FZero,
        FAdd(FAdd(FAdd(FAdd(
            FMul(Pct(25), FDivInt(Dec(metrics.test_coverage, 1), 100)),
            FMul(Pct(25), Dec(metrics.code_quality_score, 2))),
            FMul(Pct(25), FMax(FZero,
                FSub(One, FDivInt(FInt(metrics.security_vulnerabilities), 10))))),
            FMul(Dec(125, 3), Dec(metrics.performance_score, 2))),
            FMul(Dec(125, 3), Dec(metrics.reliability_score, 2)))))

\* lines 626-635: the sum of the response time, throughput, error rate and
\* availability scores, over 4.
calculate_performance_score(metrics) ==
    FMin(One, FMax(FZero,
        FDivInt(FAdd(FAdd(FAdd(
            FMax(FZero, FSub(One, FDivInt(Dec(metrics.response_time_p95, 1), 500))),
            FMin(One, FDivInt(FInt(metrics.throughput), 2000))),
            FMax(FZero, FSub(One, FDivInt(Dec(metrics.error_rate, 2), 1)))),
            FDivInt(Dec(metrics.availability, 2), 100)), 4)))

\* lines 637-650: base_score with its two bonuses, less the penalty.
calculate_security_score(assessment) ==
    FMax(FZero, FMin(One,
        FSub(add_if(add_if(Dec(assessment.security_score, 2),
                           assessment.quantum_security_enabled, Pct(5)),
                    assessment.zero_trust_validated, Pct(5)),
             FMin(Pct(50), FMul(FInt(assessment.vulnerability_count), Dec(1, 1))))))

\* lines 546-558
calculate_overall_score(quality_metrics, performance_metrics, security_assessment, overall_risk_score) ==
    FDivInt(FAdd(FAdd(FAdd(calculate_quality_score(quality_metrics),
                           calculate_performance_score(performance_metrics)),
                      calculate_security_score(security_assessment)),
                 FSub(One, overall_risk_score)), 4)

\* the overall score of the contexts the model's providers produce, after
\* the risk analysis, computed once.
ScoredContexts ==
    (QualityMetricsValues \cup QualityMetricsDomain)
    \X (PerformanceMetricsValues \cup PerformanceMetricsDomain)
    \X (SecurityAssessmentValues \cup SecurityAssessmentDomain)

OverallScoreMemo ==
    [k \in ScoredContexts |->
        calculate_overall_score(k[1], k[2], k[3], risk_score_of(k[1], k[2]))] @@ <<>>

overall_score(context) ==
    LET k == <<context.quality_metrics, context.performance_metrics,
               context.security_assessment>>
    IN  IF k \in ScoredContexts
           /\ context.risk_assessment.overall_risk_score = risk_score(context)
        THEN OverallScoreMemo[k]
        ELSE calculate_overall_score(context.quality_metrics, context.performance_metrics,
                 context.security_assessment, context.risk_assessment.overall_risk_score)

\* line 596: 1.0 - overall_score, of the same contexts, computed once.
RejectConfidenceMemo ==
    [k \in ScoredContexts |-> FSub(One, OverallScoreMemo[k])] @@ <<>>

reject_confidence(context, overall) ==
    LET k == <<context.quality_metrics, context.performance_metrics,
               context.security_assessment>>
    IN  IF k \in ScoredContexts
           /\ context.risk_assessment.overall_risk_score = risk_score(context)
        THEN RejectConfidenceMemo[k]
        ELSE FSub(One, overall)

\* mutant: a rule matches from 0.9 on.
evaluate_rule_condition_90(condition, context, overall) ==
    FGe(overall, Pct(90))

\* mutant: a rule matches from 0.8 on.
evaluate_rule_condition_80(condition, context, overall) ==
    FGe(overall, Pct(80))

\* lines 652-655: the condition text is ignored.
evaluate_rule_condition(condition, context, overall) ==
    FGe(overall, Pct(85))

RECURSIVE first_matching_rule(_, _, _)
\* lines 563-564: index of the first rule whose condition holds, 0 if none.
first_matching_rule(rules, context, i) ==
    IF i > Len(rules) THEN 0
    ELSE IF evaluate_rule_condition(rules[i].condition, context, overall_score(context))
         THEN i
         ELSE first_matching_rule(rules, context, i + 1)

\* mutant: the conditional decision is marked for autonomous execution.
make_deployment_decision_unattended(rules, context) ==
    LET overall == overall_score(context)
        hit == first_matching_rule(rules, context, 1)
    IN  IF hit > 0 THEN
            [decision |-> "approve", confidence |-> rules[hit].confidence,
             reasoning |-> <<"Condition met", rules[hit].condition>>,
             conditions |-> <<>>, recommended_actions |-> <<>>,
             autonomous_execution |-> TRUE]
        ELSE IF FGe(overall, Pct(90)) THEN
            [decision |-> "approve", confidence |-> overall,
             reasoning |-> <<"High overall quality score">>,
             conditions |-> <<>>, recommended_actions |-> <<>>,
             autonomous_execution |-> TRUE]
        ELSE IF FGe(overall, Pct(70)) THEN
            [decision |-> "conditional", confidence |-> overall,
             reasoning |-> <<"Moderate quality score, conditions required">>,
             conditions |-> <<"enhanced_monitoring", "gradual_rollout">>,
             recommended_actions |-> <<"Monitor key metrics closely">>,
             autonomous_execution |-> TRUE]
        ELSE
            [decision |-> "reject", confidence |-> reject_confidence(context, overall),
             reasoning |-> <<"Quality metrics below threshold">>,
             conditions |-> <<>>,
             recommended_actions |-> <<"Improve test coverage", "Fix security issues">>,
             autonomous_execution |-> FALSE]

\* lines 563-601: the return statements, for the overall score and the
\* index of the first rule that matches (0: none).
decision_for(rules, context, overall, hit) ==
    IF hit > 0 THEN
        [decision |-> "approve", confidence |-> rules[hit].confidence,
         reasoning |-> <<"Condition met", rules[hit].condition>>,
         conditions |-> <<>>, recommended_actions |-> <<>>,
         autonomous_execution |-> TRUE]
    ELSE IF FGe(overall, Pct(90)) THEN
        [decision |-> "approve", confidence |-> overall,
         reasoning |-> <<"High overall quality score">>,
         conditions |-> <<>>, recommended_actions |-> <<>>,
         autonomous_execution |-> TRUE]
    ELSE IF FGe(overall, Pct(70)) THEN
        [decision |-> "conditional", confidence |-> overall,
         reasoning |-> <<"Moderate quality score, conditions required">>,
         conditions |-> <<"enhanced_monitoring", "gradual_rollout">>,
         recommended_actions |-> <<"Monitor key metrics closely">>,
         autonomous_execution |-> FALSE]
    ELSE
        [decision |-> "reject", confidence |-> reject_confidence(context, overall),
         reasoning |-> <<"Quality metrics below threshold">>,
         conditions |-> <<>>,
         recommended_actions |-> <<"Improve test coverage", "Fix security issues">>,
         autonomous_execution |-> FALSE]

\* lines 542-601
make_deployment_decision(rules, context) ==
    decision_for(rules, context, overall_score(context),
                 first_matching_rule(rules, context, 1))

\* dict.get(key, default)
Get(d, key, default) == IF key \in DOMAIN d THEN d[key] ELSE default

\* mutant: the test stage is accepted on tests_passed alone.
validate_stage_success_no_coverage(stage, result) ==
    IF stage = VALIDATION THEN Get(result, "validation_passed", FALSE)
    ELSE IF stage = BUILD THEN Get(result, "build_successful", FALSE)
    ELSE IF stage = TEST THEN Get(result, "tests_passed", FALSE)
    ELSE Get(result, "deployment_successful", FALSE)

\* lines 657-673
validate_stage_success(stage, result) ==
    IF stage = VALIDATION THEN Get(result, "validation_passed", FALSE)
    ELSE IF stage = BUILD THEN Get(result, "build_successful", FALSE)
    ELSE IF stage = TEST THEN
        Get(result, "tests_passed", FALSE) /\ Get(result, "test_coverage", 0) >= 850
    ELSE Get(result, "deployment_successful", FALSE)

\* mutant: staging is treated like production.
determine_rollback_strategy_staging(context, partial_results) ==
    IF context.environment \in {"production", "staging"}
    THEN [strategy |-> "immediate", reason |-> "Production safety priority"]
    ELSE [strategy |-> "gradual", reason |-> "Non-production environment"]

\* lines 675-686
determine_rollback_strategy(context, partial_results) ==
    IF context.environment = "production"
    THEN [strategy |-> "immediate", reason |-> "Production safety priority"]
    ELSE [strategy |-> "gradual", reason |-> "Non-production environment"]

\* mutant: the branch of the gradual strategy is missing.
rollback_action_no_gradual(rollback_strategy) ==
    IF rollback_strategy.strategy = "immediate" THEN "immediate"
    ELSE IF rollback_strategy.strategy = "targeted" THEN "targeted"
    ELSE "none"

\* lines 413-418: the rollback executor _initiate_intelligent_rollback calls.
rollback_action(rollback_strategy) ==
    IF rollback_strategy.strategy = "immediate" THEN "immediate"
    ELSE IF rollback_strategy.strategy = "gradual" THEN "gradual"
    ELSE IF rollback_strategy.strategy = "targeted" THEN "targeted"
    ELSE "none"

(***************************************************************************)
(* The production monitoring loop (lines 364-395) and AnomalyDetector      *)
(* (lines 869-880).                                                        *)
(***************************************************************************)
monitoring_duration == 300
check_interval == 10

\* mutant: a sample equal to the threshold is an anomaly.
detect_anomaly_closed(current_metrics, baseline_metrics) ==
    LET current_response_time == Dec(Get(current_metrics, "response_time", 0), 2)
        threshold == FMul(Dec(baseline_metrics.response_time_p95, 1), Dec(15, 1))
    IN  FGe(current_response_time, threshold)

\* lines 877-880
detect_anomaly(current_metrics, baseline_metrics) ==
    LET current_response_time == Dec(Get(current_metrics, "response_time", 0), 2)
        threshold == FMul(Dec(baseline_metrics.response_time_p95, 1), Dec(15, 1))
    IN  FGt(current_response_time, threshold)

\* the verdicts on the samples and baselines of the model, computed once.
SampledBaselines ==
    RealtimeSamples \X (PerformanceMetricsValues \cup PerformanceMetricsDomain)

AnomalyMemo == [k \in SampledBaselines |-> detect_anomaly(k[1], k[2])] @@ <<>>

\* line 380: the call of detect_anomaly.
anomaly_detected(current_metrics, baseline_metrics) ==
    IF <<current_metrics, baseline_metrics>> \in SampledBaselines
    THEN AnomalyMemo[<<current_metrics, baseline_metrics>>]
    ELSE detect_anomaly(current_metrics, baseline_metrics)

\* line 390
impact_detected(business_impact) == business_impact.severity > 70

(***************************************************************************)
(* What the external collaborators can hand to the core.                   *)
(***************************************************************************)
\* deployment requests, on the keys the code reads (lines 219-221); a
\* request may omit the environment, and its environment is an arbitrary
\* string.  The last one is the request of main (lines 889-895).
Requests ==
    {[submitted |-> TRUE, environment |-> e, strategy |-> "blue-green"] :
        e \in {"development", "staging", "production", "qa"}}
    \cup {[submitted |-> TRUE, strategy |-> "blue-green"]}
    \cup {[submitted |-> TRUE, environment |-> "production", version |-> "4.0.0",
            strategy |-> "blue-green-with-canary"]}

NoRequest == [submitted |-> FALSE]

\* the pipeline configuration (lines 341, 561): the names of the stage
\* descriptors present and the decision rules.
AllStageNames == {stage_name(s) : s \in DeploymentStage \ {ROLLBACK}}

Configs ==
    {[stages |-> n, rules |-> ru] :
        n \in {AllStageNames} \cup {AllStageNames \ {x} : x \in AllStageNames},
        ru \in {<<>>, <<[condition |-> "quality_gate_passed", confidence |-> Pct(95)]>>}}

\* stage executors (lines 473-491): the result a stage executor may return.
ExecutorResults(stage, context) ==
    IF stage = VALIDATION THEN
        {[validation_passed |-> TRUE, checks_completed |-> 15],
         [validation_passed |-> FALSE, checks_completed |-> 15],
         [checks_completed |-> 15]}
    ELSE IF stage = BUILD THEN
        {[build_successful |-> TRUE, artifacts_created |-> <<"frontend", "api", "quantum">>],
         [build_successful |-> FALSE, artifacts_created |-> <<>>]}
    ELSE IF stage = TEST THEN
        {[tests_passed |-> TRUE, test_coverage |-> 895, test_count |-> 1247],
         [tests_passed |-> TRUE, test_coverage |-> 850, test_count |-> 1247],
         [tests_passed |-> TRUE, test_coverage |-> 849, test_count |-> 1247],
         [tests_passed |-> FALSE, test_coverage |-> 895, test_count |-> 1247],
         [tests_passed |-> TRUE, test_count |-> 1247]}
    ELSE IF stage = MONITORING THEN
        {[monitoring_enabled |-> TRUE, dashboards_created |-> 5, alerts_configured |-> 12],
         [monitoring_enabled |-> TRUE, deployment_successful |-> TRUE],
         [success |-> TRUE]}
    ELSE
        {[deployment_successful |-> TRUE, strategy |-> context.deployment_strategy],
         [deployment_successful |-> FALSE, strategy |-> context.deployment_strategy],
         [success |-> TRUE]}

\* the result each stage executor of the source returns (lines 475-491).
OwnSuccessResult(stage, context) ==
    IF stage = VALIDATION THEN [validation_passed |-> TRUE, checks_completed |-> 15]
    ELSE IF stage = BUILD THEN
        [build_successful |-> TRUE, artifacts_created |-> <<"frontend", "api", "quantum">>]
    ELSE IF stage = TEST THEN
        [tests_passed |-> TRUE, test_coverage |-> 895, test_count |-> 1247]
    ELSE IF stage = MONITORING THEN
        [monitoring_enabled |-> TRUE, dashboards_created |-> 5, alerts_configured |-> 12]
    ELSE [deployment_successful |-> TRUE, strategy |-> context.deployment_strategy]

(***************************************************************************)
(* State.  One orchestrator (config, deployment_history, the wall clock)   *)
(* and, per orchestrate_deployment call r, the locals of the call.         *)
(***************************************************************************)
VARIABLES
    config,               \* self.config (line 124), fixed after construction
    deployment_history,   \* DeploymentHistoryTracker.deployment_history (line 817)
    now,                  \* the last value datetime.now() returned, in half seconds
    request,              \* the deployment_request of call r (NoRequest: none)
    pc,                   \* where call r stands
    deployment_id,        \* line 152
    context,              \* lines 157-161
    deployment_decision,  \* line 164
    stage_index,          \* position of the loop of line 290 in the stage list
    results,              \* line 288: stage.value -> stage result
    stage_result,         \* line 294
    monitor_i,            \* the i of the loop of line 372
    error,                \* the exception being handled
    result,               \* lines 171-179
    returned,             \* the value orchestrate_deployment returned
    executed,             \* history: the stages whose executor was started, in order
    rollback_log,         \* history: the rollbacks initiated, in order
    monitor_log,          \* history: the flag each monitor tick raised, in order
    monitor_sample,       \* history: what the last monitor tick collected and assessed
    stage_failure         \* history: the first stage failure of the call, and its kind

vars == <<config, deployment_history, now, request, pc, deployment_id, context,
          deployment_decision, stage_index, results, stage_result, monitor_i, error,
          result, returned, executed, rollback_log, monitor_log, monitor_sample, stage_failure>>

None == [none |-> TRUE]

\* line 152: f"deploy-{datetime.now().strftime('%Y%m%d-%H%M%S')}" keeps whole seconds.
format_deployment_id(t) == [prefix |-> "deploy", stamp |-> t \div 2]

\* lines 841-850
get_relevant_history(history) ==
    [total_deployments |-> Len(history), success_rate |-> 95,
     average_deployment_time |-> 25, similar_deployments |-> 15]

\* the stage the loop of line 290 is at.
current_stage(r) == deployment_stages(context[r].environment)[stage_index[r]]

InitWith(reqs) ==
    /\ config \in Configs
    /\ deployment_history = <<>>
    /\ now = 0
    /\ request \in reqs
    /\ pc = [r \in Runs |-> "idle"]
    /\ deployment_id = [r \in Runs |-> None]
    /\ context = [r \in Runs |-> None]
    /\ deployment_decision = [r \in Runs |-> None]
    /\ stage_index = [r \in Runs |-> 0]
    /\ results = [r \in Runs |-> <<>>]
    /\ stage_result = [r \in Runs |-> None]
    /\ monitor_i = [r \in Runs |-> 0]
    /\ error = [r \in Runs |-> None]
    /\ result = [r \in Runs |-> None]
    /\ returned = [r \in Runs |-> None]
    /\ executed = [r \in Runs |-> <<>>]
    /\ rollback_log = [r \in Runs |-> <<>>]
    /\ monitor_log = [r \in Runs |-> <<>>]
    /\ monitor_sample = [r \in Runs |-> None]
    /\ stage_failure = [r \in Runs |-> None]

\* one request is submitted to a freshly constructed orchestrator.
Init ==
    InitWith({[r \in Runs |-> IF r = 1 THEN q ELSE NoRequest] : q \in Requests})

\* lines 152-153: the call starts and takes its id from the clock.
AssignDeploymentId(r) ==
    /\ pc[r] = "idle"
    /\ request[r].submitted
    /\ \E t \in Times :
        /\ t >= now
        /\ now' = t
        /\ deployment_id' = [deployment_id EXCEPT ![r] = format_deployment_id(t)]
    /\ pc' = [pc EXCEPT ![r] = "gather"]
    /\ UNCHANGED <<config, deployment_history, request, context, deployment_decision,
                   stage_index, results, stage_result, monitor_i, error, result, returned,
                   executed, rollback_log, monitor_log, monitor_sample, stage_failure>>

\* lines 157, 201-229: the context is gathered from the metric providers and
\* from the history as it is when line 216 reads it.
GatherContext(r) ==
    /\ pc[r] = "gather"
    /\ \E qm \in QualityMetricsValues, pm \in PerformanceMetricsValues,
          sa \in SecurityAssessmentValues :
        /\ context' = [context EXCEPT ![r] =
              [environment |-> Get(request[r], "environment", "production"),
               application_version |-> Get(request[r], "version", "latest"),
               deployment_strategy |-> Get(request[r], "strategy", "blue-green"),
               quality_metrics |-> qm,
               performance_metrics |-> pm,
               security_assessment |-> sa,
               risk_assessment |-> PlaceholderRisk,
               historical_data |-> get_relevant_history(deployment_history)]]
    /\ pc' = [pc EXCEPT ![r] = "analyze"]
    /\ UNCHANGED <<config, deployment_history, now, request, deployment_id,
                   deployment_decision, stage_index, results, stage_result, monitor_i,
                   error, result, returned, executed, rollback_log, monitor_log, monitor_sample,
                   stage_failure>>

\* mutant: the analysis is not stored in the context.
AnalyzeRisk_discard(r) ==
    /\ pc[r] = "analyze"
    /\ pc' = [pc EXCEPT ![r] = "decide"]
    /\ UNCHANGED <<config, deployment_history, now, request, deployment_id, context,
                   deployment_decision, stage_index, results, stage_result, monitor_i,
                   error, result, returned, executed, rollback_log, monitor_log,
                   monitor_sample, stage_failure>>

\* lines 160-161
AnalyzeRisk(r) ==
    /\ pc[r] = "analyze"
    /\ context' = [context EXCEPT ![r].risk_assessment = analyze_deployment_risk(context[r])]
    /\ pc' = [pc EXCEPT ![r] = "decide"]
    /\ UNCHANGED <<config, deployment_history, now, request, deployment_id,
                   deployment_decision, stage_index, results, stage_result, monitor_i,
                   error, result, returned, executed, rollback_log, monitor_log, monitor_sample, stage_failure>>

\* line 164
Decide(r) ==
    /\ pc[r] = "decide"
    /\ deployment_decision' = [deployment_decision EXCEPT ![r] =
          make_deployment_decision(config.rules, context[r])]
    /\ pc' = [pc EXCEPT ![r] = "dispatch"]
    /\ UNCHANGED <<config, deployment_history, now, request, deployment_id, context,
                   stage_index, results, stage_result, monitor_i, error, result,
                   returned, executed, rollback_log, monitor_log, monitor_sample, stage_failure>>

\* lines 170-171: which branch of the dispatch a decision takes.
dispatch_branch(decision) ==
    IF decision.decision = "approve" /\ decision.autonomous_execution THEN "autonomous"
    ELSE IF decision.decision = "conditional" THEN "conditional"
    ELSE "rejected"

\* lines 525-532
execute_conditional_deployment(decision) ==
    [status |-> "conditional_success", conditions_met |-> decision.conditions]

\* lines 175-179
rejected_result(decision) ==
    [status |-> "rejected", reason |-> decision.reasoning,
     recommendations |-> decision.recommended_actions]

\* lines 169-179 and the entry of _execute_autonomous_deployment (lines 266-288)
Dispatch(r) ==
    /\ pc[r] = "dispatch"
    /\ \/ /\ dispatch_branch(deployment_decision[r]) = "autonomous"
          /\ stage_index' = [stage_index EXCEPT ![r] = 1]
          /\ results' = [results EXCEPT ![r] = <<>>]
          /\ pc' = [pc EXCEPT ![r] = "stage"]
          /\ UNCHANGED result
       \/ /\ dispatch_branch(deployment_decision[r]) = "conditional"
          /\ result' = [result EXCEPT ![r] =
                execute_conditional_deployment(deployment_decision[r])]
          /\ pc' = [pc EXCEPT ![r] = "record"]
          /\ UNCHANGED <<stage_index, results>>
       \/ /\ dispatch_branch(deployment_decision[r]) = "rejected"
          /\ result' = [result EXCEPT ![r] = rejected_result(deployment_decision[r])]
          /\ pc' = [pc EXCEPT ![r] = "record"]
          /\ UNCHANGED <<stage_index, results>>
    /\ UNCHANGED <<config, deployment_history, now, request, deployment_id, context,
                   deployment_decision, stage_result, monitor_i, error, returned,
                   executed, rollback_log, monitor_log, monitor_sample, stage_failure>>

\* lines 327-332
success_result(ctx, res) ==
    [status |-> "success", deployment_strategy |-> ctx.deployment_strategy,
     results |-> res, monitoring_enabled |-> TRUE]

\* lines 305-310
failed_result_earlier(stage, res) ==
    [status |-> "failed", failed_stage |-> stage_name(stage), rollback_initiated |-> TRUE,
     results |-> [s \in DOMAIN res \ {stage} |-> res[s]]]

failed_result(stage, res) ==
    [status |-> "failed", failed_stage |-> stage, rollback_initiated |-> TRUE,
     results |-> res]

\* lines 319-325
error_result(stage, e, res) ==
    [status |-> "error", failed_stage |-> stage, error |-> e,
     rollback_initiated |-> TRUE, results |-> res]

\* lines 195-199
orchestration_failed(id, e) ==
    [deployment_id |-> id, status |-> "error", error |-> e]

\* lines 186-191
orchestration_return(id, decision, res, ctx) ==
    [deployment_id |-> id, decision |-> decision, result |-> res, context |-> ctx]

\* mutant: the loop does not advance and runs its stage again.
NextStage_again(r) ==
    /\ stage_index' = stage_index
    /\ pc' = [pc EXCEPT ![r] = "stage"]
    /\ UNCHANGED result

\* mutant: the loop steps over the stage that follows.
NextStage_skip(r) ==
    IF stage_index[r] + 2 > Len(deployment_stages(context[r].environment))
    THEN /\ result' = [result EXCEPT ![r] = success_result(context[r], results[r])]
         /\ pc' = [pc EXCEPT ![r] = "record"]
         /\ UNCHANGED stage_index
    ELSE /\ stage_index' = [stage_index EXCEPT ![r] = stage_index[r] + 2]
         /\ pc' = [pc EXCEPT ![r] = "stage"]
         /\ UNCHANGED result

\* the loop of line 290 moves to its next stage, or ends (lines 327-332).
NextStage(r) ==
    IF stage_index[r] = Len(deployment_stages(context[r].environment))
    THEN /\ result' = [result EXCEPT ![r] = success_result(context[r], results[r])]
         /\ pc' = [pc EXCEPT ![r] = "record"]
         /\ UNCHANGED stage_index
    ELSE /\ stage_index' = [stage_index EXCEPT ![r] = stage_index[r] + 1]
         /\ pc' = [pc EXCEPT ![r] = "stage"]
         /\ UNCHANGED result

\* lines 294-295, 334-362: the descriptor lookup, then the stage executor.
ExecuteStage(r) ==
    /\ pc[r] = "stage"
    /\ LET stage == current_stage(r) IN
       \/ /\ stage_name(stage) \notin config.stages
          /\ error' = [error EXCEPT ![r] =
                [type |-> "ValueError", message |-> "Stage configuration not found",
                 stage |-> stage]]
          /\ stage_failure' = [stage_failure EXCEPT ![r] =
                [stage |-> stage, kind |-> "config"]]
          /\ pc' = [pc EXCEPT ![r] = "except"]
          /\ UNCHANGED <<executed, stage_result, results>>
       \/ /\ stage_name(stage) \in config.stages
          /\ executed' = [executed EXCEPT ![r] = Append(executed[r], stage)]
          /\ \/ /\ error' = [error EXCEPT ![r] =
                      [type |-> "ExecutorFault", message |-> "stage executor failed",
                       stage |-> stage]]
                /\ stage_failure' = [stage_failure EXCEPT ![r] =
                      [stage |-> stage, kind |-> "executor"]]
                /\ pc' = [pc EXCEPT ![r] = "except"]
                /\ UNCHANGED <<stage_result, results>>
             \/ \E res \in ExecutorResults(stage, context[r]) :
                /\ stage_result' = [stage_result EXCEPT ![r] = res]
                /\ results' = [results EXCEPT ![r] = (stage :> res) @@ results[r]]
                /\ pc' = [pc EXCEPT ![r] = "validate"]
                /\ UNCHANGED <<error, stage_failure>>
    /\ UNCHANGED <<config, deployment_history, now, request, deployment_id, context,
                   deployment_decision, stage_index, monitor_i, result, returned,
                   rollback_log, monitor_log, monitor_sample>>

\* mutant: the monitoring loop is entered after the deploy-staging stage.
ValidateStage_staging(r) ==
    /\ pc[r] = "validate"
    /\ \/ /\ ~validate_stage_success(current_stage(r), stage_result[r])
          /\ stage_failure' = [stage_failure EXCEPT ![r] =
                [stage |-> current_stage(r), kind |-> "validation"]]
          /\ pc' = [pc EXCEPT ![r] = "rollback"]
          /\ UNCHANGED <<stage_index, result, monitor_i>>
       \/ /\ validate_stage_success(current_stage(r), stage_result[r])
          /\ current_stage(r) = DEPLOY_STAGING
          /\ monitor_i' = [monitor_i EXCEPT ![r] = 0]
          /\ pc' = [pc EXCEPT ![r] = "monitor"]
          /\ UNCHANGED <<stage_index, result, stage_failure>>
       \/ /\ validate_stage_success(current_stage(r), stage_result[r])
          /\ current_stage(r) # DEPLOY_STAGING
          /\ NextStage(r)
          /\ UNCHANGED <<monitor_i, stage_failure>>
    /\ UNCHANGED <<config, deployment_history, now, request, deployment_id, context,
                   deployment_decision, results, stage_result, error, returned, executed,
                   rollback_log, monitor_log, monitor_sample>>

\* lines 297-314: the validation gate of the stage just executed.
ValidateStage(r) ==
    /\ pc[r] = "validate"
    /\ \/ /\ ~validate_stage_success(current_stage(r), stage_result[r])
          /\ stage_failure' = [stage_failure EXCEPT ![r] =
                [stage |-> current_stage(r), kind |-> "validation"]]
          /\ pc' = [pc EXCEPT ![r] = "rollback"]
          /\ UNCHANGED <<stage_index, result, monitor_i>>
       \/ /\ validate_stage_success(current_stage(r), stage_result[r])
          /\ current_stage(r) = DEPLOY_PRODUCTION
          /\ monitor_i' = [monitor_i EXCEPT ![r] = 0]
          /\ pc' = [pc EXCEPT ![r] = "monitor"]
          /\ UNCHANGED <<stage_index, result, stage_failure>>
       \/ /\ validate_stage_success(current_stage(r), stage_result[r])
          /\ current_stage(r) # DEPLOY_PRODUCTION
          /\ NextStage(r)
          /\ UNCHANGED <<monitor_i, stage_failure>>
    /\ UNCHANGED <<config, deployment_history, now, request, deployment_id, context,
                   deployment_decision, results, stage_result, error, returned, executed,
                   rollback_log, monitor_log, monitor_sample>>

\* lines 372-395: one iteration of the monitoring loop.  A flag leaves the
\* loop (break); the method then returns and the loop of line 290 goes on.
MonitorTick(r) ==
    /\ pc[r] = "monitor"
    /\ \E current_metrics \in RealtimeSamples, business_impact \in BusinessImpacts :
        \/ /\ anomaly_detected(current_metrics, context[r].performance_metrics)
           /\ monitor_log' = [monitor_log EXCEPT ![r] = Append(monitor_log[r], "anomaly")]
           /\ monitor_sample' = [monitor_sample EXCEPT ![r] =
                 [current_metrics |-> current_metrics, business_impact |-> None]]
           /\ NextStage(r)
           /\ UNCHANGED monitor_i
        \/ /\ ~anomaly_detected(current_metrics, context[r].performance_metrics)
           /\ impact_detected(business_impact)
           /\ monitor_log' = [monitor_log EXCEPT ![r] = Append(monitor_log[r], "impact")]
           /\ monitor_sample' = [monitor_sample EXCEPT ![r] =
                 [current_metrics |-> current_metrics, business_impact |-> business_impact]]
           /\ NextStage(r)
           /\ UNCHANGED monitor_i
        \/ /\ ~anomaly_detected(current_metrics, context[r].performance_metrics)
           /\ ~impact_detected(business_impact)
           /\ monitor_log' = [monitor_log EXCEPT ![r] = Append(monitor_log[r], "ok")]
           /\ monitor_sample' = [monitor_sample EXCEPT ![r] =
                 [current_metrics |-> current_metrics, business_impact |-> business_impact]]
           /\ IF monitor_i[r] + check_interval < monitoring_duration
              THEN /\ monitor_i' = [monitor_i EXCEPT ![r] = monitor_i[r] + check_interval]
                   /\ UNCHANGED <<stage_index, result, pc>>
              ELSE /\ NextStage(r)
                   /\ UNCHANGED monitor_i
    /\ UNCHANGED <<config, deployment_history, now, request, deployment_id, context,
                   deployment_decision, results, stage_result, error, returned, executed,
                   rollback_log, stage_failure>>

\* lines 397-421: the strategy is selected, its executor runs (and may fail),
\* then the stakeholders are notified.
rollback_entry(r, ok) ==
    LET rollback_strategy == determine_rollback_strategy(context[r], results[r]) IN
    [strategy |-> rollback_strategy.strategy,
     action |-> rollback_action(rollback_strategy),
     completed |-> ok, notified |-> ok,
     stages_started |-> Len(executed[r])]

RollbackFault ==
    [type |-> "RollbackFault", message |-> "rollback executor failed"]

\* lines 302-310: rollback after a failed validation, inside the try of line 293.
RollbackAfterValidation(r) ==
    /\ pc[r] = "rollback"
    /\ \E ok \in BOOLEAN :
        /\ rollback_log' = [rollback_log EXCEPT ![r] =
              Append(rollback_log[r], rollback_entry(r, ok))]
        /\ IF ok
           THEN /\ result' = [result EXCEPT ![r] =
                      failed_result(current_stage(r), results[r])]
                /\ pc' = [pc EXCEPT ![r] = "record"]
                /\ UNCHANGED error
           ELSE /\ error' = [error EXCEPT ![r] = RollbackFault]
                /\ pc' = [pc EXCEPT ![r] = "except"]
                /\ UNCHANGED result
    /\ UNCHANGED <<config, deployment_history, now, request, deployment_id, context,
                   deployment_decision, stage_index, results, stage_result, monitor_i,
                   returned, executed, monitor_log, monitor_sample, stage_failure>>

\* lines 316-325, and lines 193-199 when the rollback of line 318 raises.
HandleStageException(r) ==
    /\ pc[r] = "except"
    /\ \E ok \in BOOLEAN :
        /\ rollback_log' = [rollback_log EXCEPT ![r] =
              Append(rollback_log[r], rollback_entry(r, ok))]
        /\ IF ok
           THEN /\ result' = [result EXCEPT ![r] =
                      error_result(current_stage(r), error[r], results[r])]
                /\ pc' = [pc EXCEPT ![r] = "record"]
                /\ UNCHANGED <<error, returned>>
           ELSE /\ error' = [error EXCEPT ![r] = RollbackFault]
                /\ returned' = [returned EXCEPT ![r] =
                      orchestration_failed(deployment_id[r], RollbackFault)]
                /\ pc' = [pc EXCEPT ![r] = "done"]
                /\ UNCHANGED result
    /\ UNCHANGED <<config, deployment_history, now, request, deployment_id, context,
                   deployment_decision, stage_index, results, stage_result, monitor_i,
                   executed, monitor_log, monitor_sample, stage_failure>>

\* line 830: datetime.now().isoformat() keeps the whole reading of the clock,
\* the seconds and the fraction of a second below them.
isoformat(t) == [seconds |-> t \div 2, microsecond |-> (t % 2) * 500000]

\* lines 828-834
deployment_record(id, timestamp, ctx, decision, res) ==
    [deployment_id |-> id, timestamp |-> timestamp, context |-> ctx,
     decision |-> decision, result |-> res]

PersistFault ==
    [type |-> "PersistFault", message |-> "history persistence failed"]

\* lines 181-199, 819-839: the clock is read for the record's timestamp
\* (line 830), the record is appended, persisting it may fail; a failure is
\* caught by the handler of line 193.
RecordDeployment(r) ==
    /\ pc[r] = "record"
    /\ \E t \in Times :
        /\ t >= now
        /\ now' = t
        /\ deployment_history' = Append(deployment_history,
              deployment_record(deployment_id[r], isoformat(t), context[r],
                                deployment_decision[r], result[r]))
    /\ \E ok \in BOOLEAN :
        IF ok
        THEN /\ returned' = [returned EXCEPT ![r] =
                   orchestration_return(deployment_id[r], deployment_decision[r],
                                        result[r], context[r])]
             /\ UNCHANGED error
        ELSE /\ error' = [error EXCEPT ![r] = PersistFault]
             /\ returned' = [returned EXCEPT ![r] =
                   orchestration_failed(deployment_id[r], PersistFault)]
    /\ pc' = [pc EXCEPT ![r] = "done"]
    /\ UNCHANGED <<config, request, deployment_id, context, deployment_decision,
                   stage_index, results, stage_result, monitor_i, result, executed,
                   rollback_log, monitor_log, monitor_sample, stage_failure>>

Next ==
    \E r \in Runs :
        \/ AssignDeploymentId(r)
        \/ GatherContext(r)
        \/ AnalyzeRisk(r)
        \/ Decide(r)
        \/ Dispatch(r)
        \/ ExecuteStage(r)
        \/ ValidateStage(r)
        \/ MonitorTick(r)
        \/ RollbackAfterValidation(r)
        \/ HandleStageException(r)
        \/ RecordDeployment(r)

Spec == Init /\ [][Next]_vars

\* the event loop keeps running a call whose awaited external call has
\* returned or raised: a call that can take a step eventually takes one.
SpecFair == Init /\ [][Next]_vars /\ WF_vars(Next)

(***************************************************************************)
(* Several orchestrate_deployment calls on one orchestrator (asyncio tasks  *)
(* of one event loop): every await is a point where another call may run,  *)
(* so the calls' actions interleave freely.  The calls share self.config,  *)
(* the clock and the history.  The requests are for the development        *)
(* environment, whose pipeline never enters the production monitoring.     *)
(***************************************************************************)
InitConcurrent ==
    /\ InitWith({[r \in Runs |-> q] :
                    q \in {x \in Requests : "environment" \in DOMAIN x
                                             /\ x.environment = "development"}})
    /\ config = [stages |-> AllStageNames, rules |-> <<>>]

NextConcurrent ==
    \E r \in Runs :
        \/ AssignDeploymentId(r)
        \/ GatherContext(r)
        \/ AnalyzeRisk(r)
        \/ Decide(r)
        \/ Dispatch(r)
        \/ ExecuteStage(r)
        \/ ValidateStage(r)
        \/ RollbackAfterValidation(r)
        \/ HandleStageException(r)
        \/ RecordDeployment(r)

SpecConcurrent == InitConcurrent /\ [][NextConcurrent]_vars

(***************************************************************************)
(* The analysis and the decision on their own (lines 160-179), from the    *)
(* state in which _gather_deployment_context has returned, with the wider  *)
(* range of metrics.                                                       *)
(***************************************************************************)
\* the rule lists of autonomous_decisions.deployment_approval (line 561).
RuleLists ==
    LET r95 == [condition |-> "quality_gate_passed", confidence |-> Pct(95)]
        r80 == [condition |-> "security_scan_clean", confidence |-> Pct(80)]
    IN  {<<>>, <<r95>>, <<r95, r80>>, <<r80, r95>>}

\* line 157 has returned: the context of call 1 is gathered, its risk
\* assessment is still the placeholder of line 225.
InitDecision ==
    /\ config \in {[stages |-> AllStageNames, rules |-> ru] : ru \in RuleLists}
    /\ deployment_history = <<>>
    /\ now = 0
    /\ request \in {[r \in Runs |-> IF r = 1 THEN q ELSE NoRequest] :
                        q \in {x \in Requests : "environment" \in DOMAIN x
                                                 /\ x.environment = "production"}}
    /\ pc = [r \in Runs |-> IF r = 1 THEN "analyze" ELSE "idle"]
    /\ deployment_id = [r \in Runs |-> IF r = 1 THEN format_deployment_id(0) ELSE None]
    /\ context \in
          {[r \in Runs |-> IF r = 1
                THEN [environment |-> Get(request[1], "environment", "production"),
                      application_version |-> Get(request[1], "version", "latest"),
                      deployment_strategy |-> Get(request[1], "strategy", "blue-green"),
                      quality_metrics |-> qm,
                      performance_metrics |-> pm,
                      security_assessment |-> sa,
                      risk_assessment |-> PlaceholderRisk,
                      historical_data |-> get_relevant_history(<<>>)]
                ELSE None] :
             qm \in QualityMetricsDomain, pm \in PerformanceMetricsDomain,
             sa \in SecurityAssessmentDomain}
    /\ deployment_decision = [r \in Runs |-> None]
    /\ stage_index = [r \in Runs |-> 0]
    /\ results = [r \in Runs |-> <<>>]
    /\ stage_result = [r \in Runs |-> None]
    /\ monitor_i = [r \in Runs |-> 0]
    /\ error = [r \in Runs |-> None]
    /\ result = [r \in Runs |-> None]
    /\ returned = [r \in Runs |-> None]
    /\ executed = [r \in Runs |-> <<>>]
    /\ rollback_log = [r \in Runs |-> <<>>]
    /\ monitor_log = [r \in Runs |-> <<>>]
    /\ monitor_sample = [r \in Runs |-> None]
    /\ stage_failure = [r \in Runs |-> None]

NextDecision ==
    \E r \in Runs :
        \/ AnalyzeRisk(r)
        \/ Decide(r)
        \/ Dispatch(r)

SpecDecision == InitDecision /\ [][NextDecision]_vars

(***************************************************************************)
(* Properties.                                                             *)
(***************************************************************************)
Decided(r) == deployment_decision[r] # None

\* the call has left the dispatch of lines 169-179 with a result, or returned.
Finished(r) == pc[r] \in {"record", "done"}

\* the status of the value the call returned.
returned_status(r) ==
    IF "result" \in DOMAIN returned[r] THEN returned[r].result.status
    ELSE returned[r].status

IsPrefix(s, t) == Len(s) <= Len(t) /\ s = SubSeq(t, 1, Len(s))

Flagged(r) ==
    \E i \in 1 .. Len(monitor_log[r]) : monitor_log[r][i] \in {"anomaly", "impact"}

Started(r, stage) == \E i \in 1 .. Len(executed[r]) : executed[r][i] = stage

\* C1: a rejected request executes no stage and no rollback, and
\* orchestrate_deployment returns a result with status rejected carrying the
\* decision's reasoning and recommended actions: every call that has
\* returned after a reject decision returned that result.
C1_RejectRunsNothing ==
    \A r \in Runs :
        (Decided(r) /\ deployment_decision[r].decision = "reject") =>
            /\ executed[r] = <<>>
            /\ rollback_log[r] = <<>>
            /\ monitor_log[r] = <<>>
            /\ pc[r] \in {"dispatch", "record", "done"}
            /\ Finished(r) =>
                  /\ result[r].status = "rejected"
                  /\ result[r].reason = deployment_decision[r].reasoning
                  /\ result[r].recommendations = deployment_decision[r].recommended_actions
            /\ pc[r] = "done" =>
                  /\ "result" \in DOMAIN returned[r]
                  /\ returned[r].result = result[r]

\* C2: a run in which a monitor tick flagged an anomaly or a business impact
\* treats the deploy-production stage as failed: by the time its result is
\* determined a rollback has been initiated, and the result is not success.
C2_MonitorBreachFailsStage ==
    \A r \in Runs :
        (Flagged(r) /\ Finished(r)) =>
            /\ rollback_log[r] # <<>>
            /\ result[r] # None => result[r].status # "success"

\* C3: an approved run whose stage executors all return their own success
\* result, with no monitor flag, executes every stage, initiates no rollback
\* and ends with status success.
OwnSuccessRun(r) ==
    /\ Decided(r)
    /\ dispatch_branch(deployment_decision[r]) = "autonomous"
    /\ AllStageNames \subseteq config.stages
    /\ ~Flagged(r)
    /\ \A i \in 1 .. Len(executed[r]) :
          /\ executed[r][i] \in DOMAIN results[r]
          /\ results[r][executed[r][i]] = OwnSuccessResult(executed[r][i], context[r])

C3_OwnSuccessEndsInSuccess ==
    \A r \in Runs :
        OwnSuccessRun(r) =>
            /\ rollback_log[r] = <<>>
            /\ pc[r] \notin {"rollback", "except"}
            /\ Finished(r) =>
                  /\ result[r] # None
                  /\ result[r].status = "success"
                  /\ executed[r] = deployment_stages(context[r].environment)

\* C4: after a stage failure (validator false, or executor raise) a rollback
\* strategy is selected and its executor is run before the run ends, no
\* stage after the failed one is started, and the run ends failed or error.
C4_FailureRollsBackAndStops ==
    \A r \in Runs :
        (stage_failure[r] # None /\ stage_failure[r].kind \in {"validation", "executor"}) =>
            /\ executed[r] # <<>>
            /\ executed[r][Len(executed[r])] = stage_failure[r].stage
            /\ pc[r] \in {"rollback", "except", "record", "done"}
            /\ Finished(r) =>
                  /\ rollback_log[r] # <<>>
                  /\ rollback_log[r][1].action \in {"immediate", "gradual", "targeted"}
                  /\ rollback_log[r][1].action = rollback_log[r][1].strategy
                  /\ result[r] # None => result[r].status \in {"failed", "error"}
            /\ pc[r] = "done" => returned_status(r) \in {"failed", "error"}

C4_Witness ==
    \E r \in Runs :
        /\ pc[r] = "done"
        /\ stage_failure[r] # None
        /\ stage_failure[r].kind = "validation"
        /\ stage_failure[r].stage = TEST
        /\ context[r].environment = "staging"
        /\ rollback_log[r] # <<>>
        /\ returned_status(r) = "failed"

\* C5: a conditional decision runs the stage pipeline like an approved run
\* (so the run ends success, failed or error, and its first stage is started
\* when the configuration describes it) and the outcome records the
\* decision's conditions.
C5_ConditionalRunsPipeline ==
    \A r \in Runs :
        (Decided(r) /\ deployment_decision[r].decision = "conditional" /\ Finished(r)) =>
            /\ result[r] # None =>
                  /\ result[r].status \in {"success", "failed", "error"}
                  /\ Get(result[r], "conditions_met", <<>>) = deployment_decision[r].conditions
            /\ stage_name(VALIDATION) \in config.stages => Started(r, VALIDATION)

\* C6: the stages a run executes are, in this order, validation, build, test,
\* deploy-development (development, staging, production), deploy-staging
\* (staging, production), deploy-production (production only), monitoring.
ClaimedStages(environment) ==
    <<VALIDATION, BUILD, TEST>>
    \o (IF environment \in {"development", "staging", "production"}
        THEN <<DEPLOY_DEV>> ELSE <<>>)
    \o (IF environment \in {"staging", "production"} THEN <<DEPLOY_STAGING>> ELSE <<>>)
    \o (IF environment = "production" THEN <<DEPLOY_PRODUCTION>> ELSE <<>>)
    \o <<MONITORING>>

C6_StageOrder ==
    \A r \in Runs :
        context[r] # None =>
            /\ IsPrefix(executed[r], ClaimedStages(context[r].environment))
            /\ context[r].environment # "production" => ~Started(r, DEPLOY_PRODUCTION)

\* C7: the rollback strategy selected is immediate iff the environment is
\* production, gradual for every other environment, whatever the partial
\* results; targeted is never selected.
C7_RollbackStrategy ==
    \A r \in Runs :
        \A i \in 1 .. Len(rollback_log[r]) :
            /\ rollback_log[r][i].strategy \in {"immediate", "gradual"}
            /\ rollback_log[r][i].strategy = "immediate"
                  <=> context[r].environment = "production"
            /\ rollback_log[r][i].strategy = "gradual"
                  <=> context[r].environment # "production"

C7_Witness ==
    \E r \in Runs :
        /\ rollback_log[r] # <<>>
        /\ rollback_log[r][1].strategy = "gradual"
        /\ context[r].environment = "staging"
        /\ DEPLOY_STAGING \in DOMAIN results[r]

\* C8: an executor raise ends the run with status error, the failed stage,
\* the executor's message and rollback_initiated; a validation failure ends
\* it with status failed, the failed stage and rollback_initiated; for a
\* production run whose build executor raises the rollback is the immediate one.
C8_FailureResult ==
    \A r \in Runs :
        (Finished(r) /\ stage_failure[r] # None
         /\ stage_failure[r].kind \in {"validation", "executor"}) =>
            /\ result[r] # None
            /\ result[r].failed_stage = stage_failure[r].stage
            /\ result[r].rollback_initiated
            /\ stage_failure[r].kind = "executor" =>
                  /\ result[r].status = "error"
                  /\ result[r].error.type = "ExecutorFault"
            /\ stage_failure[r].kind = "validation" => result[r].status = "failed"
            /\ (context[r].environment = "production" /\ stage_failure[r].stage = BUILD
                /\ stage_failure[r].kind = "executor") =>
                  /\ Len(rollback_log[r]) = 1
                  /\ rollback_log[r][1].action = "immediate"

\* C9: when the configuration lacks the descriptor of a stage the run intends
\* to execute, no stage is executed, no rollback is initiated, and the run is
\* surfaced as an error.
MissingDescriptor(r) ==
    /\ Decided(r)
    /\ dispatch_branch(deployment_decision[r]) = "autonomous"
    /\ \E i \in 1 .. Len(deployment_stages(context[r].environment)) :
          stage_name(deployment_stages(context[r].environment)[i]) \notin config.stages

C9_MissingDescriptorAborts ==
    \A r \in Runs :
        MissingDescriptor(r) =>
            /\ executed[r] = <<>>
            /\ rollback_log[r] = <<>>
            /\ pc[r] = "done" => returned_status(r) = "error"

\* C10: a failure to record the outcome does not change what the call
\* returns: the deployment_id, the decision, the result and the context.
C10_RecordFailureIgnored ==
    \A r \in Runs :
        (pc[r] = "done" /\ result[r] # None) =>
            returned[r] = orchestration_return(deployment_id[r], deployment_decision[r],
                                               result[r], context[r])

\* C11: rollback is best-effort.  Whatever the rollback executor does, a run
\* with a stage failure ends with status failed (validation failure) or error
\* (executor raise) and reports the failed stage, and the stakeholders are
\* notified after every rollback attempt.
C11_RollbackBestEffort ==
    \A r \in Runs :
        (stage_failure[r] # None /\ stage_failure[r].kind \in {"validation", "executor"}) =>
            /\ \A i \in 1 .. Len(rollback_log[r]) : rollback_log[r][i].notified
            /\ pc[r] = "done" =>
                  /\ "result" \in DOMAIN returned[r]
                  /\ returned[r].result.status =
                        (IF stage_failure[r].kind = "validation" THEN "failed" ELSE "error")
                  /\ returned[r].result.failed_stage = stage_failure[r].stage

\* C12: every value orchestrate_deployment returns carries deployment_id,
\* decision, result and context, and the status of the result is one of
\* rejected, success, failed, error.
C12_ReturnShape ==
    \A r \in Runs :
        pc[r] = "done" =>
            /\ DOMAIN returned[r] = {"deployment_id", "decision", "result", "context"}
            /\ returned[r].result.status \in {"rejected", "success", "failed", "error"}

\* the risk analysis of call r has been stored in its context (line 161).
Analyzed(r) == pc[r] \notin {"idle", "gather", "analyze"}

\* the overall score of the decision: the mean of the quality, performance
\* and security scores and of 1 - overall_risk_score.
MeanScore(c) ==
    FDivInt(FAdd(FAdd(FAdd(calculate_quality_score(c.quality_metrics),
                           calculate_performance_score(c.performance_metrics)),
                      calculate_security_score(c.security_assessment)),
                 FSub(One, c.risk_assessment.overall_risk_score)), 4)

\* C13: the decision follows this priority on the overall score: a configured
\* rule matches from 0.85 on and gives approve with the confidence of the
\* (first) matching rule; else overall >= 0.9 gives approve with confidence
\* overall; else overall >= 0.7 gives conditional with confidence overall and
\* the conditions enhanced_monitoring, gradual_rollout; else reject with
\* confidence 1 - overall.
C13_DecisionPriority ==
    \A r \in Runs :
        Decided(r) =>
            LET overall == MeanScore(context[r])
                d == deployment_decision[r]
                rule_matches == config.rules # <<>> /\ FGe(overall, Pct(85))
            IN  /\ rule_matches =>
                      /\ d.decision = "approve"
                      /\ d.confidence = config.rules[1].confidence
                /\ (~rule_matches /\ FGe(overall, Pct(90))) =>
                      /\ d.decision = "approve"
                      /\ d.confidence = overall
                /\ (~rule_matches /\ FGe(overall, Pct(70)) /\ FLt(overall, Pct(90))) =>
                      /\ d.decision = "conditional"
                      /\ d.confidence = overall
                      /\ d.conditions = <<"enhanced_monitoring", "gradual_rollout">>
                /\ (~rule_matches /\ FLt(overall, Pct(70))) =>
                      /\ d.decision = "reject"
                      /\ d.confidence = FSub(One, overall)

C13_Witness ==
    \E r \in Runs :
        /\ Decided(r)
        /\ Len(config.rules) = 2
        /\ config.rules[1].confidence = Pct(80)
        /\ FGe(MeanScore(context[r]), Pct(85))
        /\ FLt(MeanScore(context[r]), Pct(90))
        /\ deployment_decision[r].decision = "approve"
        /\ deployment_decision[r].confidence = Pct(80)

\* C14: in every decision, the decision value is approve, conditional or
\* reject, conditions is non-empty only if the decision is conditional, and
\* autonomous_execution is true only if the decision is approve.
C14_DecisionShape ==
    \A r \in Runs :
        Decided(r) =>
            /\ deployment_decision[r].decision \in {"approve", "conditional", "reject"}
            /\ deployment_decision[r].conditions # <<>> =>
                  deployment_decision[r].decision = "conditional"
            /\ deployment_decision[r].autonomous_execution =>
                  deployment_decision[r].decision = "approve"

C14_Witness ==
    \E r \in Runs :
        /\ Decided(r)
        /\ deployment_decision[r].decision = "conditional"
        /\ deployment_decision[r].conditions # <<>>
        /\ ~deployment_decision[r].autonomous_execution
        /\ config.rules # <<>>

\* the sum of the fixed weights of the conditions a context triggers.
WeightSum(c) ==
    FAdd(FAdd(FAdd(
        (IF c.quality_metrics.test_coverage < 800 THEN Pct(20) ELSE FZero),
        (IF c.quality_metrics.security_vulnerabilities > 0 THEN Pct(30) ELSE FZero)),
        (IF c.performance_metrics.error_rate > 50 THEN Pct(20) ELSE FZero)),
        (IF c.performance_metrics.availability < 9950 THEN Pct(15) ELSE FZero))

\* C15: the risk analysis returns the sum of the weights of the triggered
\* conditions (test_coverage < 80: 0.20, security_vulnerabilities > 0: 0.30,
\* error_rate > 0.5: 0.20, availability < 99.5: 0.15) and the level HIGH from
\* 0.7 on, MEDIUM from 0.4 on, else LOW; exactly 0.4 is MEDIUM, exactly 0.7 is
\* HIGH, and CRITICAL is never returned.
C15_RiskScoreAndLevel ==
    \A r \in Runs :
        Analyzed(r) =>
            LET ra == context[r].risk_assessment IN
            /\ ra.overall_risk_score = WeightSum(context[r])
            /\ ra.risk_level \in {"low", "medium", "high"}
            /\ ra.risk_level = "high" <=> FGe(ra.overall_risk_score, Pct(70))
            /\ ra.risk_level = "medium" <=>
                  (FGe(ra.overall_risk_score, Pct(40)) /\ FLt(ra.overall_risk_score, Pct(70)))
            /\ ra.overall_risk_score = Pct(40) => ra.risk_level = "medium"
            /\ ra.overall_risk_score = Pct(70) => ra.risk_level = "high"

C15_Witness ==
    \E r \in Runs :
        /\ Analyzed(r)
        /\ context[r].quality_metrics.test_coverage = 799
        /\ context[r].quality_metrics.security_vulnerabilities = 0
        /\ context[r].performance_metrics.error_rate = 51
        /\ context[r].performance_metrics.availability = 9950
        /\ context[r].risk_assessment.overall_risk_score = Pct(40)
        /\ context[r].risk_assessment.risk_level = "medium"

\* C16: for a context with test_coverage 60 and 2 security vulnerabilities,
\* whatever the other metrics, the risk score is at least 0.50 with the
\* factors Low test coverage and Security vulnerabilities present (exactly
\* 0.50 and MEDIUM when nothing else triggers), and the decision is
\* conditional or reject, never an autonomous approve: no stage is started.
ScenarioB(r) ==
    /\ context[r] # None
    /\ context[r].quality_metrics.test_coverage = 600
    /\ context[r].quality_metrics.security_vulnerabilities = 2

C16_ScenarioBNeverApproved ==
    \A r \in Runs :
        ScenarioB(r) =>
            /\ Analyzed(r) =>
                  LET ra == context[r].risk_assessment IN
                  /\ FGe(ra.overall_risk_score, Pct(50))
                  /\ SubSeq(ra.risk_factors, 1, 2)
                        = <<"Low test coverage", "Security vulnerabilities present">>
                  /\ (context[r].performance_metrics.error_rate <= 50
                      /\ context[r].performance_metrics.availability >= 9950) =>
                        /\ ra.overall_risk_score = Pct(50)
                        /\ ra.risk_level = "medium"
            /\ Decided(r) =>
                  /\ deployment_decision[r].decision \in {"conditional", "reject"}
                  /\ ~deployment_decision[r].autonomous_execution
            /\ pc[r] # "stage"
            /\ executed[r] = <<>>

C16_Witness ==
    \E r \in Runs :
        /\ ScenarioB(r)
        /\ pc[r] = "record"
        /\ config.rules # <<>>
        /\ context[r].quality_metrics.code_quality_score = 100
        /\ context[r].performance_metrics.availability = 10000
        /\ context[r].security_assessment.security_score = 100
        /\ context[r].risk_assessment.overall_risk_score = Pct(50)
        /\ deployment_decision[r].decision = "conditional"

\* C17: the history summary gathered while the history is empty is the
\* zero/neutral one: total 0, and success_rate, average_deployment_time and
\* similar_deployments at zero as well.
C17_EmptyHistoryNeutral ==
    \A r \in Runs :
        (context[r] # None /\ context[r].historical_data.total_deployments = 0) =>
            /\ context[r].historical_data.success_rate = 0
            /\ context[r].historical_data.average_deployment_time = 0
            /\ context[r].historical_data.similar_deployments = 0

\* the runs that reached a decision and have returned.
DecidedAndDone == {r \in Runs : pc[r] = "done" /\ Decided(r)}

\* the record call r writes at line 182, its timestamp being the clock's
\* reading rec carries.
OwnRecord(r, rec) ==
    deployment_record(deployment_id[r], rec.timestamp, context[r],
                      deployment_decision[r], result[r])

\* C18: the history is append-only (a step only appends to it: the records
\* already written stay as they are, in their order), and each run that
\* reached a decision has appended exactly one record by the time it returns,
\* the record of its determined result, whatever the outcome.
C18_HistoryAppendOnly ==
    /\ [][IsPrefix(deployment_history, deployment_history')]_vars
    /\ [](/\ Len(deployment_history) = Cardinality(DecidedAndDone)
          /\ \A r \in DecidedAndDone :
                /\ result[r] # None
                /\ \E i \in 1 .. Len(deployment_history) :
                      deployment_history[i] = OwnRecord(r, deployment_history[i]))

\* the result call r produces from its own decision and from what its own
\* stage executors and rollbacks did.
OwnResult(r) ==
    IF dispatch_branch(deployment_decision[r]) = "rejected"
        THEN rejected_result(deployment_decision[r])
    ELSE IF dispatch_branch(deployment_decision[r]) = "conditional"
        THEN execute_conditional_deployment(deployment_decision[r])
    ELSE IF stage_failure[r] = None
        THEN success_result(context[r], results[r])
    ELSE IF stage_failure[r].kind = "validation" /\ rollback_log[r][1].completed
        THEN failed_result(stage_failure[r].stage, results[r])
    ELSE error_result(stage_failure[r].stage, error[r], results[r])

\* C19: under any interleaving of concurrent runs, the decision and the
\* result of each run are those of the run alone (functions of its own
\* context and of its own stages), and once all runs have finished the
\* history holds exactly one record per run that reached a decision.
C19_ConcurrentRunsIndependent ==
    /\ \A r \in Runs :
          /\ Decided(r) =>
                deployment_decision[r] = make_deployment_decision(config.rules, context[r])
          /\ pc[r] = "record" => result[r] = OwnResult(r)
    /\ (\A r \in Runs : pc[r] = "done") =>
          /\ Len(deployment_history) = Cardinality({r \in Runs : Decided(r)})
          /\ \A r \in Runs :
                Cardinality({i \in 1 .. Len(deployment_history) :
                               deployment_history[i].context = context[r]
                               /\ deployment_history[i].decision = deployment_decision[r]
                               /\ deployment_history[i].result = result[r]}) >= 1

\* C20: two distinct runs have different deployment_ids, and no two history
\* records carry the same deployment_id.
C20_DistinctIds ==
    /\ \A r1, r2 \in Runs :
          (r1 # r2 /\ deployment_id[r1] # None /\ deployment_id[r2] # None) =>
              deployment_id[r1] # deployment_id[r2]
    /\ \A i, j \in 1 .. Len(deployment_history) :
          i # j => deployment_history[i].deployment_id # deployment_history[j].deployment_id

\* the success flag of a stage result: the stage's own flag for validation
\* and build, tests_passed with a coverage of at least 85 for test, and the
\* flag deployment_successful for the deploy stages and every other stage.
FlagSet(stage, res) ==
    CASE stage = VALIDATION -> "validation_passed" \in DOMAIN res /\ res.validation_passed
      [] stage = BUILD -> "build_successful" \in DOMAIN res /\ res.build_successful
      [] stage = TEST -> /\ "tests_passed" \in DOMAIN res /\ res.tests_passed
                         /\ "test_coverage" \in DOMAIN res /\ res.test_coverage >= 850
      [] OTHER -> "deployment_successful" \in DOMAIN res /\ res.deployment_successful

\* the i-th stage started by call r has been through the validator.
Validated(r, i) ==
    /\ i \in 1 .. Len(executed[r])
    /\ executed[r][i] \in DOMAIN results[r]
    /\ ~(i = Len(executed[r]) /\ pc[r] = "validate")

\* the validator rejected the result of the i-th stage started by call r.
Rejected(r, i) ==
    /\ Validated(r, i)
    /\ i = Len(executed[r])
    /\ stage_failure[r] # None
    /\ stage_failure[r].kind = "validation"

\* C21: the validator accepts a stage result only if the stage's success flag
\* is present and true (test: tests_passed and test_coverage >= 85), and
\* rejects it otherwise: a missing flag, or a passing test run with a
\* coverage below 85, is a validation failure.
C21_ValidateStage ==
    \A r \in Runs :
        \A i \in 1 .. Len(executed[r]) :
            Validated(r, i) =>
                (Rejected(r, i) <=> ~FlagSet(executed[r][i], results[r][executed[r][i]]))

C21_Witness ==
    \E r \in Runs :
        /\ Rejected(r, 3)
        /\ executed[r][3] = TEST
        /\ results[r][TEST] = [tests_passed |-> TRUE, test_coverage |-> 849,
                                test_count |-> 1247]
        /\ pc[r] = "done"
        /\ returned_status(r) = "failed"

\* C22: the stages are started in pipeline order, none skipped: the stages
\* started so far are a prefix of the run's stage list, and every stage but
\* the last one started has returned a result the validator accepted.
C22_StagesInOrder ==
    \A r \in Runs :
        context[r] # None =>
            /\ IsPrefix(executed[r], deployment_stages(context[r].environment))
            /\ \A i \in 1 .. Len(executed[r]) - 1 :
                  /\ executed[r][i] \in DOMAIN results[r]
                  /\ FlagSet(executed[r][i], results[r][executed[r][i]])
            /\ pc[r] \in {"stage", "validate"} =>
                  Len(executed[r]) \in {stage_index[r] - 1, stage_index[r]}

C22_Witness ==
    \E r \in Runs :
        /\ context[r] # None
        /\ context[r].environment = "staging"
        /\ executed[r] = <<VALIDATION, BUILD, TEST, DEPLOY_DEV, DEPLOY_STAGING, MONITORING>>
        /\ pc[r] = "done"
        /\ returned_status(r) = "success"

\* the flag the last monitor tick of call r raised.
LastFlag(r) == monitor_log[r][Len(monitor_log[r])]

\* whether a response_time exceeds 1.5 times a baseline response_time_p95, in
\* the floats of the comparison, for the samples and baselines of the model.
ExceedsThreshold ==
    [k \in {s.response_time : s \in RealtimeSamples}
           \X {p.response_time_p95 : p \in PerformanceMetricsValues} |->
        FGt(Dec(k[1], 2), FMul(Dec(k[2], 1), Dec(15, 1)))] @@ <<>>

\* C23: a monitor tick flags an anomaly iff the sample's response_time is
\* strictly greater than 1.5 times the baseline response_time_p95 (the
\* product being the float the multiplication yields), and flags
\* impact iff the severity it assessed is strictly greater than 0.7; a tick
\* that raises a flag is the last tick; a loop without a flag performs
\* exactly 300 / 10 = 30 ticks and ends.
C23_MonitorLoop ==
    \A r \in Runs :
        /\ monitor_sample[r] # None =>
              LET cm == monitor_sample[r].current_metrics
                  bi == monitor_sample[r].business_impact
                  p95 == context[r].performance_metrics.response_time_p95
              IN  /\ LastFlag(r) = "anomaly" <=> ExceedsThreshold[<<cm.response_time, p95>>]
                  /\ LastFlag(r) = "impact" <=> (bi # None /\ bi.severity > 70)
                  /\ LastFlag(r) = "anomaly" <=> bi = None
        /\ \A i \in 1 .. Len(monitor_log[r]) - 1 : monitor_log[r][i] = "ok"
        /\ Len(monitor_log[r]) <= 30
        /\ pc[r] = "monitor" => (~Flagged(r) /\ Len(monitor_log[r]) < 30)
        /\ (pc[r] # "monitor" /\ monitor_log[r] # <<>> /\ ~Flagged(r)) =>
              /\ Len(monitor_log[r]) = 30
              /\ Len(monitor_log[r]) = monitoring_duration \div check_interval

C23_Witness ==
    \E r \in Runs :
        /\ pc[r] = "done"
        /\ Len(monitor_log[r]) = 30
        /\ ~Flagged(r)
        /\ context[r].performance_metrics.response_time_p95 = 1000
        /\ monitor_sample[r].current_metrics.response_time = 15000
        /\ monitor_sample[r].business_impact.severity = 70

\* the last stage whose executor call r started.
LastStarted(r) == executed[r][Len(executed[r])]

\* call r is inside the production monitoring of an accepted deploy-production.
InsideProductionDeploy(r) ==
    /\ pc[r] = "monitor"
    /\ executed[r] # <<>>
    /\ LastStarted(r) = DEPLOY_PRODUCTION
    /\ DEPLOY_PRODUCTION \in DOMAIN results[r]
    /\ FlagSet(DEPLOY_PRODUCTION, results[r][DEPLOY_PRODUCTION])
    /\ rollback_log[r] = <<>>
    /\ stage_failure[r] = None

\* C24: monitor ticks are confined to the deploy-production stage.  A tick is
\* taken only while the last stage started is the accepted deploy-production
\* stage, before any later stage starts, with no stage failure and no
\* rollback so far; a run whose stage list has no deploy-production stage
\* never ticks.
C24_MonitorConfined ==
    /\ [](\A r \in Runs :
            /\ pc[r] = "monitor" => InsideProductionDeploy(r)
            /\ monitor_log[r] # <<>> =>
                  /\ Started(r, DEPLOY_PRODUCTION)
                  /\ \E i \in 1 .. Len(deployment_stages(context[r].environment)) :
                        deployment_stages(context[r].environment)[i] = DEPLOY_PRODUCTION)
    /\ [][\A r \in Runs :
            monitor_log'[r] # monitor_log[r] => InsideProductionDeploy(r)]_vars

C24_Witness ==
    \E r \in Runs :
        /\ InsideProductionDeploy(r)
        /\ Len(monitor_log[r]) = 2
        /\ context[r].environment = "production"

\* C25: whenever a decision exists, the risk_assessment of the context is the
\* Risk Analyzer's output for that context, not the placeholder, and the
\* decision is the one computed from that context; no decision is made
\* before the analysis, and no stage is started before the decision exists.
C25_DecisionAfterAnalysis ==
    \A r \in Runs :
        /\ pc[r] \in {"idle", "gather", "analyze"} => ~Decided(r)
        /\ (context[r] # None /\ pc[r] \in {"gather", "analyze"}) =>
              context[r].risk_assessment = PlaceholderRisk
        /\ Decided(r) =>
              /\ Analyzed(r)
              /\ context[r].risk_assessment # PlaceholderRisk
              /\ context[r].risk_assessment = analyze_deployment_risk(context[r])
              /\ deployment_decision[r] = make_deployment_decision(config.rules, context[r])
        /\ executed[r] # <<>> => Decided(r)

C25_Witness ==
    \E r \in Runs :
        /\ Decided(r)
        /\ context[r].risk_assessment.overall_risk_score = Pct(50)
        /\ context[r].risk_assessment.risk_level = "medium"
        /\ deployment_decision[r].decision = "reject"
        /\ pc[r] = "done"

\* every rollback executor call r made has returned (none raised).
RollbacksReturned(r) ==
    \A i \in 1 .. Len(rollback_log[r]) : rollback_log[r][i].completed

\* C26: every run terminates.  A run starts each stage of its pipeline at
\* most once (at most 7 stage executions), its monitor performs at most 30
\* ticks, its rollback runs at most once when the rollback executor returns,
\* and every submitted run eventually returns a terminal outcome.
C26_RunTerminates ==
    /\ [](\A r \in Runs :
            /\ Len(executed[r]) <= 7
            /\ \A i, j \in 1 .. Len(executed[r]) : i # j => executed[r][i] # executed[r][j]
            /\ Len(monitor_log[r]) <= 30
            /\ RollbacksReturned(r) => Len(rollback_log[r]) <= 1
            /\ pc[r] = "done" => returned[r] # None)
    /\ <>(\A r \in Runs : request[r].submitted => pc[r] = "done")

C26_Witness ==
    \E r \in Runs :
        /\ pc[r] = "done"
        /\ Len(executed[r]) = 7
        /\ Len(monitor_log[r]) = 30
        /\ stage_failure[r] # None
        /\ stage_failure[r].stage = MONITORING
        /\ Len(rollback_log[r]) = 1
        /\ RollbacksReturned(r)
        /\ returned_status(r) = "failed"

\* the pipeline built for r's environment contains the production deploy.
PipelineHasProduction(r) ==
    \E i \in 1 .. Len(deployment_stages(context[r].environment)) :
        deployment_stages(context[r].environment)[i] = DEPLOY_PRODUCTION

\* C27: whatever environment the request carries, every rollback selected in
\* a run whose pipeline contains the deploy-production stage uses the
\* immediate strategy.
C27_ProductionPipelineImmediate ==
    \A r \in Runs :
        (context[r] # None /\ PipelineHasProduction(r)) =>
            \A i \in 1 .. Len(rollback_log[r]) :
                rollback_log[r][i].strategy = "immediate"

\* C28: a run rolls back at most once, and only after one of its stages
\* failed; a rejected run and a successful run never roll back; the result of
\* the pipeline reports rollback_initiated exactly when a rollback strategy
\* was selected.
C28_RollbackOnce ==
    \A r \in Runs :
        /\ Len(rollback_log[r]) <= 1
        /\ rollback_log[r] # <<>> => stage_failure[r] # None
        /\ (Decided(r) /\ deployment_decision[r].decision = "reject") =>
              rollback_log[r] = <<>>
        /\ (result[r] # None /\ result[r].status \in {"success", "rejected"}) =>
              rollback_log[r] = <<>>
        /\ (result[r] # None /\ pc[r] \in {"record", "done"}) =>
              (Get(result[r], "rollback_initiated", FALSE) <=> rollback_log[r] # <<>>)

\* the stages at positions 1 .. n of r's pipeline.
FirstStages(r, n) ==
    {deployment_stages(context[r].environment)[i] : i \in 1 .. n}

\* C29: at every point of a run the keys of the per-stage results map are
\* the first stages of the run's pipeline, in its order.  The map reported
\* after a validation failure holds the stages up to and including the failed
\* one, after a raise of a stage's executor (or of its descriptor lookup) the
\* stages before the failed one only, and on success every stage.
C29_ResultsPrefix ==
    \A r \in Runs :
        context[r] # None =>
            /\ \E n \in 0 .. Len(deployment_stages(context[r].environment)) :
                  DOMAIN results[r] = FirstStages(r, n)
            /\ (result[r] # None /\ "results" \in DOMAIN result[r]) =>
                  /\ result[r].status = "success" =>
                        DOMAIN result[r].results =
                           FirstStages(r, Len(deployment_stages(context[r].environment)))
                  /\ (result[r].status # "success" /\ stage_failure[r].kind = "validation") =>
                        /\ deployment_stages(context[r].environment)[stage_index[r]]
                              = stage_failure[r].stage
                        /\ DOMAIN result[r].results = FirstStages(r, stage_index[r])
                  /\ (result[r].status # "success"
                         /\ stage_failure[r].kind \in {"executor", "config"}) =>
                        /\ deployment_stages(context[r].environment)[stage_index[r]]
                              = stage_failure[r].stage
                        /\ DOMAIN result[r].results = FirstStages(r, stage_index[r] - 1)

C29_Witness ==
    \E r \in Runs :
        /\ pc[r] = "done"
        /\ result[r] # None
        /\ result[r].status = "error"
        /\ stage_failure[r] = [stage |-> TEST, kind |-> "executor"]
        /\ DOMAIN result[r].results = {VALIDATION, BUILD}
        /\ executed[r] = <<VALIDATION, BUILD, TEST>>

====
